---- MODULE Spec2Model ----
(***************************************************************************)
(* Configuration resolution of the video-summarization framework:          *)
(* summarizer/utils/config.py, class HParameters.                          *)
(*                                                                         *)
(* Python strings are sequences of one-character strings, so that          *)
(* str.split, os.path.basename, os.path.join and the `in` substring test   *)
(* are computed the way the interpreter computes them.  Python values of   *)
(* an attribute are tagged records [t |-> type, v |-> payload]; a dict is  *)
(* a function whose domain is its key set.                                 *)
(***************************************************************************)
EXTENDS Integers, Sequences, FiniteSets, TLC

VARIABLES hps, logger, writers, dirs, now, calls, last

vars == <<hps, logger, writers, dirs, now, calls, last>>

\* ------------------------------------------------------------- bounds
\* number of load_from_args calls explored on one configuration object
MaxCalls == 2
\* number of clock seconds that may pass during a run
MaxTicks == 1

\* ------------------------------------------------------------ strings
\* "logs"
s_logs ==
    <<"l","o","g","s">>
\* ".pth"
s_pth ==
    <<".","p","t","h">>
\* "_preds.h5"
s_preds ==
    <<"_","p","r","e","d","s",".","h","5">>
\* "train.log"
s_train_log ==
    <<"t","r","a","i","n",".","l","o","g">>
\* "default"
s_default ==
    <<"d","e","f","a","u","l","t">>
\* "yes"
s_yes ==
    <<"y","e","s">>
\* "no"
s_no ==
    <<"n","o">>
\* "baseline"
s_baseline ==
    <<"b","a","s","e","l","i","n","e">>
\* "vasnet"
s_vasnet ==
    <<"v","a","s","n","e","t">>
\* "transformer"
s_transformer ==
    <<"t","r","a","n","s","f","o","r","m","e","r">>
\* "DSN"
s_DSN ==
    <<"D","S","N">>
\* "sumgan"
s_sumgan ==
    <<"s","u","m","g","a","n">>
\* "resnet"
s_resnet ==
    <<"r","e","s","n","e","t">>
\* "LogisticRegressionModel"
n_LogisticRegressionModel ==
    <<"L","o","g","i","s","t","i","c","R","e","g","r","e","s","s","i","o","n",
    "M","o","d","e","l">>
\* "VASNetModel"
n_VASNetModel ==
    <<"V","A","S","N","e","t","M","o","d","e","l">>
\* "TransformerModel"
n_TransformerModel ==
    <<"T","r","a","n","s","f","o","r","m","e","r","M","o","d","e","l">>
\* "DSNModel"
n_DSNModel ==
    <<"D","S","N","M","o","d","e","l">>
\* "SumGANModel"
n_SumGANModel ==
    <<"S","u","m","G","A","N","M","o","d","e","l">>
\* "datasets/summarizer_dataset_summe_google_pool5.h5"
d_summe ==
    <<"d","a","t","a","s","e","t","s","/","s","u","m","m","a","r","i","z","e",
    "r","_","d","a","t","a","s","e","t","_","s","u","m","m","e","_","g","o",
    "o","g","l","e","_","p","o","o","l","5",".","h","5">>
\* "datasets/summarizer_dataset_tvsum_google_pool5.h5"
d_tvsum ==
    <<"d","a","t","a","s","e","t","s","/","s","u","m","m","a","r","i","z","e",
    "r","_","d","a","t","a","s","e","t","_","t","v","s","u","m","_","g","o",
    "o","g","l","e","_","p","o","o","l","5",".","h","5">>
\* "splits/tvsum_splits.json"
f_tvsum ==
    <<"s","p","l","i","t","s","/","t","v","s","u","m","_","s","p","l","i","t",
    "s",".","j","s","o","n">>
\* "splits/summe_splits.json"
f_summe ==
    <<"s","p","l","i","t","s","/","s","u","m","m","e","_","s","p","l","i","t",
    "s",".","j","s","o","n">>
\* "root_dir"
a_root_dir ==
    <<"r","o","o","t","_","d","i","r">>
\* "set1,set2,set3"
a_set123 ==
    <<"s","e","t","1",",","s","e","t","2",",","s","e","t","3">>
\* "split1, split2"
a_split12 ==
    <<"s","p","l","i","t","1",","," ","s","p","l","i","t","2">>
\* "models/w"
a_weights ==
    <<"m","o","d","e","l","s","/","w">>
\* "a/b/tvsum_splits.json c/tvsum_splits.json"
a_two_tvsum ==
    <<"a","/","b","/","t","v","s","u","m","_","s","p","l","i","t","s",".","j",
    "s","o","n"," ","c","/","t","v","s","u","m","_","s","p","l","i","t","s",
    ".","j","s","o","n">>
\* "splits/ovp_splits.json"
a_ovp ==
    <<"s","p","l","i","t","s","/","o","v","p","_","s","p","l","i","t","s",".",
    "j","s","o","n">>
\* " "
a_blank ==
    <<" ">>
\* "datasets/summarizer_dataset_tvsum_google_pool5.h5 datasets/summarizer_dataset_summe_google_pool5.h5"
a_swapped ==
    <<"d","a","t","a","s","e","t","s","/","s","u","m","m","a","r","i","z","e",
    "r","_","d","a","t","a","s","e","t","_","t","v","s","u","m","_","g","o",
    "o","g","l","e","_","p","o","o","l","5",".","h","5"," ","d","a","t","a",
    "s","e","t","s","/","s","u","m","m","a","r","i","z","e","r","_","d","a",
    "t","a","s","e","t","_","s","u","m","m","e","_","g","o","o","g","l","e",
    "_","p","o","o","l","5",".","h","5">>
\* "logs/171_SumGANModel/tvsum_splits.json.pth"
x_weights_171 ==
    <<"l","o","g","s","/","1","7","1","_","S","u","m","G","A","N","M","o","d",
    "e","l","/","t","v","s","u","m","_","s","p","l","i","t","s",".","j","s",
    "o","n",".","p","t","h">>
\* "logs/171_SumGANModel/tvsum_splits.json_preds.h5"
x_preds_171 ==
    <<"l","o","g","s","/","1","7","1","_","S","u","m","G","A","N","M","o","d",
    "e","l","/","t","v","s","u","m","_","s","p","l","i","t","s",".","j","s",
    "o","n","_","p","r","e","d","s",".","h","5">>
\* "a/b/tvsum_splits.json"
x_ab_tvsum ==
    <<"a","/","b","/","t","v","s","u","m","_","s","p","l","i","t","s",".","j",
    "s","o","n">>
\* "c/tvsum_splits.json"
x_c_tvsum ==
    <<"c","/","t","v","s","u","m","_","s","p","l","i","t","s",".","j","s","o",
    "n">>
\* "tvsum"
q_tvsum ==
    <<"t","v","s","u","m">>
\* "summe"
q_summe ==
    <<"s","u","m","m","e">>
\* "ovp"
q_ovp ==
    <<"o","v","p">>
\* "sum"
q_sum ==
    <<"s","u","m">>

\* --------------------------------------------------------- Python values
PyNone == [t |-> "NoneType", v |-> <<>>]

PyBool(b) == [t |-> "bool", v |-> b]

PyStr(s) == [t |-> "str", v |-> s]

PyList(l) == [t |-> "list", v |-> l]

PyDict(d) == [t |-> "dict", v |-> d]

PyNum(x) == [t |-> "number", v |-> x]

PyClass(c) == [t |-> "class", v |-> c]

\* == of Python: values of different types are never equal
PyEq(a, b) == a.t = b.t /\ a.v = b.v

\* truth value of an object, as `if x:` takes it
Truthy(x) ==
    CASE x.t = "bool" -> x.v
      [] x.t = "NoneType" -> FALSE
      [] x.t = "str" -> x.v # <<>>
      [] x.t = "list" -> x.v # <<>>
      [] x.t = "dict" -> DOMAIN x.v # {}
      [] OTHER -> TRUE

\* F applied to the value of x, with x evaluated once
Bind(x, F(_)) == CHOOSE r \in {F(v) : v \in {x}} : TRUE

EmptyDict == [k \in {} |-> <<>>]

\* d[key] = val
DictSet(d, key, val) ==
    Bind(d, LAMBDA dd :
        [k \in DOMAIN dd \cup {key} |-> IF k = key THEN val ELSE dd[k]])

\* ------------------------------------------------------ string functions
IsSpace(c) == c \in {" ", "\t", "\n"}

\* str.split() without a separator: the maximal runs of non-whitespace
RECURSIVE PySplit(_)
PySplit(s) ==
    IF s = <<>> THEN <<>>
    ELSE IF IsSpace(Head(s)) THEN PySplit(Tail(s))
    ELSE LET stops == {i \in 1..Len(s) : IsSpace(s[i])}
             n == IF stops = {} THEN Len(s) + 1
                  ELSE CHOOSE i \in stops : \A j \in stops : i <= j
         IN  <<SubSeq(s, 1, n - 1)>> \o PySplit(SubSeq(s, n, Len(s)))

\* os.path.basename: what follows the last "/"
Basename(p) ==
    LET slashes == {i \in 1..Len(p) : p[i] = "/"}
        k == IF slashes = {} THEN 0
             ELSE CHOOSE i \in slashes : \A j \in slashes : j <= i
    IN  SubSeq(p, k + 1, Len(p))

\* os.path.join of two components
PathJoin(a, b) ==
    IF b # <<>> /\ Head(b) = "/" THEN b
    ELSE IF a = <<>> \/ a[Len(a)] = "/" THEN a \o b
    ELSE a \o <<"/">> \o b

\* `name in d` on two strings
Contains(name, d) ==
    Bind(name, LAMBDA n :
        \E i \in 0..(Len(d) - Len(n)) : SubSeq(d, i + 1, i + Len(n)) = n)

Digit(n) == <<"0", "1", "2", "3", "4", "5", "6", "7", "8", "9">>[n + 1]

\* str(n) of a non-negative int
RECURSIVE IntToStr(_)
IntToStr(n) ==
    IF n < 10 THEN <<Digit(n)>> ELSE IntToStr(n \div 10) \o <<Digit(n % 10)>>

\* summarizer.utils.parse_splits_filename: the dataset name is the file
\* name, without its extension, up to the first "_"; the split definitions
\* are the parsed content of the file, opaque here
ParseSplitsFilename(splits_file) ==
    LET base == Basename(splits_file)
        dots == {i \in 2..Len(base) : base[i] = "."}
        e == IF dots = {} THEN Len(base) + 1
             ELSE CHOOSE i \in dots : \A j \in dots : j <= i
        stem == SubSeq(base, 1, e - 1)
        us == {i \in 1..Len(stem) : stem[i] = "_"}
        u == IF us = {} THEN Len(stem) + 1
             ELSE CHOOSE i \in us : \A j \in us : i <= j
    IN  [dataset_name |-> SubSeq(stem, 1, u - 1),
         splits |-> <<"splits of">> \o splits_file]

\* ------------------------------------------------------ the model classes
LogisticRegressionModel == PyClass(n_LogisticRegressionModel)

VASNetModel == PyClass(n_VASNetModel)

TransformerModel == PyClass(n_TransformerModel)

DSNModel == PyClass(n_DSNModel)

SumGANModel == PyClass(n_SumGANModel)

\* cls.__name__
ClassName(cls) == cls.v

\* the dispatch table of load_from_args
ModelTable ==
    [k \in {s_baseline, s_vasnet, s_transformer, s_DSN, s_sumgan} |->
        CASE k = s_baseline -> LogisticRegressionModel
          [] k = s_vasnet -> VASNetModel
          [] k = s_transformer -> TransformerModel
          [] k = s_DSN -> DSNModel
          [] k = s_sumgan -> SumGANModel]

\* dict.get(key, default) on the dispatch table
PickModel(key) ==
    IF key.t = "str" /\ key.v \in DOMAIN ModelTable
    THEN ModelTable[key.v]
    ELSE LogisticRegressionModel

\* ------------------------------------------------------------ HParameters
\* the attributes of a fresh HParameters()
DefaultHps ==
    [verbose |-> PyBool(FALSE),
     use_cuda |-> PyBool(FALSE),
     cuda_device |-> PyNum("0"),
     max_summary_length |-> PyNum("0.15"),
     l2_req |-> PyNum("0.00001"),
     lr |-> PyNum("0.00005"),
     epochs_max |-> PyNum("300"),
     train_batch_size |-> PyNum("1"),
     test_every_epochs |-> PyNum("2"),
     root |-> PyStr(<<>>),
     datasets |-> PyList(<<d_summe, d_tvsum>>),
     splits_files |-> PyList(<<f_tvsum, f_summe>>),
     model_class |-> LogisticRegressionModel,
     test |-> PyBool(FALSE),
     weights_path |-> PyNone,
     weights_of_file |-> PyNone,
     extra_params |-> PyNone]

\* hasattr(self, key)
HasAttr(h, key) == key \in DOMAIN h

\* setattr(self, key, val)
SetAttr(h, key, val) ==
    Bind(h, LAMBDA hh :
        [k \in DOMAIN hh \cup {key} |-> IF k = key THEN val ELSE hh[k]])

\* the value load_from_args assigns for args[key] = val
Coerce(h, key, val) ==
    IF HasAttr(h, key) /\ h[key].t = "list" THEN PyList(PySplit(val.v)) ELSE val

\* the loop over the flags: every key with a non-None value is assigned.
\* The keys are distinct attributes, so the order of iteration is immaterial.
MergeArgs(h, args) ==
    Bind(h, LAMBDA hh :
        Bind({k \in DOMAIN args : args[k].t # "NoneType"}, LAMBDA given :
            [k \in DOMAIN hh \cup given |->
                IF k \in given THEN Coerce(hh, k, args[k]) ELSE hh[k]]))

\* variant: a call without "model" falls back to the baseline constructor
SelectModel_Reset(h, args) ==
    SetAttr(h, "model_class",
            IF "model" \in DOMAIN args THEN PickModel(args["model"])
            ELSE LogisticRegressionModel)

\* the model pick of load_from_args
SelectModel(h, args) ==
    IF "model" \in DOMAIN args
    THEN SetAttr(h, "model_class", PickModel(args["model"]))
    ELSE h

\* get_dataset_by_name: [d] for the first d containing the name, else None
RECURSIVE ScanDatasets(_, _, _)
ScanDatasets(ds, i, dataset_name) ==
    IF i > Len(ds) THEN PyNone
    ELSE IF Contains(dataset_name, ds[i]) THEN PyList(<<ds[i]>>)
    ELSE ScanDatasets(ds, i + 1, dataset_name)

get_dataset_by_name(h, dataset_name) ==
    Bind(h.datasets.v, LAMBDA ds :
        Bind(dataset_name, LAMBDA n : ScanDatasets(ds, 1, n)))

\* ------------------------------------------------------------------ _init
\* A machine state m is [hps, logger, writers, dirs, err]: the object, the
\* process-wide "summarizer" logger, the metrics writers opened so far, the
\* directories on disk, and the exception raised ("none" while running).

\* experiment name and metrics writer.  SummaryWriter opens its event file
\* under log_path, creating the directory.
InitLogPath(m0, t) ==
    Bind(m0, LAMBDA m :
    Bind(PathJoin(s_logs, IntToStr(t) \o <<"_">> \o ClassName(m.hps.model_class)),
         LAMBDA log_path :
        [m EXCEPT !.hps = SetAttr(SetAttr(m.hps, "log_path", PyStr(log_path)),
                                  "writer",
                                  [t |-> "SummaryWriter", v |-> log_path]),
                  !.writers = Append(m.writers, log_path),
                  !.dirs = m.dirs \cup {log_path}]))

\* variant: a flag that is already true stays true
InitUseCuda_Truthy(m0, avail) ==
    Bind(m0, LAMBDA m :
        LET flag == IF PyEq(m.hps.use_cuda, PyStr(s_default)) THEN avail
                    ELSE IF PyEq(m.hps.use_cuda, PyStr(s_yes)) THEN TRUE
                    ELSE PyEq(m.hps.use_cuda, PyBool(TRUE))
        IN  [m EXCEPT !.hps = SetAttr(m.hps, "use_cuda", PyBool(flag))])

\* the use_cuda flag; avail is torch.cuda.is_available()
InitUseCuda(m0, avail) ==
    Bind(m0, LAMBDA m :
        LET flag == IF PyEq(m.hps.use_cuda, PyStr(s_default)) THEN avail
                    ELSE IF PyEq(m.hps.use_cuda, PyStr(s_yes)) THEN TRUE
                    ELSE FALSE
        IN  [m EXCEPT !.hps = SetAttr(m.hps, "use_cuda", PyBool(flag))])

\* hps.<attr>[key] = val on a dict attribute
SetItem(h, attr, key, val) ==
    Bind(h, LAMBDA hh : SetAttr(hh, attr, PyDict(DictSet(hh[attr].v, key, val))))

\* the loop over splits_files, from index i on
RECURSIVE SplitsLoop(_, _)
SplitsLoop(m0, i) ==
    Bind(m0, LAMBDA m :
    IF i > Len(m.hps.splits_files.v) THEN m
    ELSE
    Bind(m.hps.splits_files.v[i], LAMBDA splits_file :
    Bind(ParseSplitsFilename(splits_file), LAMBDA parsed :
    Bind(SetItem(m.hps, "dataset_name_of_file", splits_file, parsed.dataset_name),
         LAMBDA h1 :
    Bind(get_dataset_by_name(h1, parsed.dataset_name), LAMBDA found :
        IF found.t = "NoneType"
        THEN \* None.pop()
             [m EXCEPT !.hps = h1, !.err = "AttributeError"]
        ELSE SplitsLoop(
               [m EXCEPT !.hps =
                   SetItem(SetItem(h1, "dataset_of_file", splits_file,
                                   found.v[Len(found.v)]),
                           "splits_of_file", splits_file, parsed.splits)],
               i + 1))))))

\* variant: maps left by an earlier resolution are kept and added to
InitSplits_Keep(m0) ==
    Bind(m0, LAMBDA m :
        IF HasAttr(m.hps, "splits_of_file") THEN SplitsLoop(m, 1)
        ELSE SplitsLoop(
               [m EXCEPT !.hps =
                   SetAttr(SetAttr(SetAttr(m.hps, "dataset_name_of_file",
                                           PyDict(EmptyDict)),
                                   "dataset_of_file", PyDict(EmptyDict)),
                           "splits_of_file", PyDict(EmptyDict))],
               1))

\* list of splits by filename
InitSplits(m0) ==
    Bind(m0, LAMBDA m :
        SplitsLoop(
          [m EXCEPT !.hps =
              SetAttr(SetAttr(SetAttr(m.hps, "dataset_name_of_file", PyDict(EmptyDict)),
                              "dataset_of_file", PyDict(EmptyDict)),
                      "splits_of_file", PyDict(EmptyDict))],
          1))

\* variant: the file names keep the directory part of the splits file
InitDestinations_FullName(m0) ==
    Bind(m0, LAMBDA m :
        LET files == m.hps.splits_files.v
            keys == {files[i] : i \in 1..Len(files)}
            log_path == m.hps.log_path.v
            wp == [f \in keys |-> PathJoin(log_path, f \o s_pth)]
            pp == [f \in keys |-> PathJoin(log_path, f \o s_preds)]
        IN  [m EXCEPT !.hps = SetAttr(SetAttr(m.hps, "weights_path", PyDict(wp)),
                                      "pred_path", PyDict(pp))])

\* destination for weights and predictions on dataset
InitDestinations(m0) ==
    Bind(m0, LAMBDA m :
        LET files == m.hps.splits_files.v
            keys == {files[i] : i \in 1..Len(files)}
            log_path == m.hps.log_path.v
            wp == [f \in keys |-> PathJoin(log_path, Basename(f) \o s_pth)]
            pp == [f \in keys |-> PathJoin(log_path, Basename(f) \o s_preds)]
        IN  [m EXCEPT !.hps = SetAttr(SetAttr(m.hps, "weights_path", PyDict(wp)),
                                      "pred_path", PyDict(pp))])

\* the loop of test mode, from index i on; os.path.join raises TypeError
\* when its first argument is not a path
RECURSIVE WeightsLoop(_, _)
WeightsLoop(m0, i) ==
    Bind(m0, LAMBDA m :
    IF i > Len(m.hps.splits_files.v) THEN m
    ELSE IF m.hps.weights_path.t # "str"
    THEN [m EXCEPT !.err = "TypeError"]
    ELSE
    Bind(m.hps.splits_files.v[i], LAMBDA splits_file :
        WeightsLoop(
          [m EXCEPT !.hps =
              SetItem(m.hps, "weights_of_file", splits_file,
                      PathJoin(m.hps.weights_path.v,
                               Basename(splits_file) \o s_pth))],
          i + 1)))

\* test mode checks the weights path; train mode creates the log path
InitMode(m0) ==
    Bind(m0, LAMBDA m :
    IF Truthy(m.hps.test)
    THEN IF m.hps.weights_path.t = "NoneType"
         THEN [m EXCEPT !.err = "AssertionError: No weights path given"]
         ELSE WeightsLoop(
                [m EXCEPT !.hps = SetAttr(m.hps, "weights_of_file", PyDict(EmptyDict))],
                1)
    ELSE [m EXCEPT !.dirs = m.dirs \cup {m.hps.log_path.v}])

\* logging.getLogger("summarizer") is one object per process: the two new
\* handlers are added to the handlers it already has
InitLogger(m0) ==
    Bind(m0, LAMBDA m :
        LET ch == [kind |-> "stream", target |-> <<>>]
            fh == [kind |-> "file",
                   target |-> PathJoin(m.hps.log_path.v, s_train_log)]
        IN  [m EXCEPT !.hps = SetAttr(m.hps, "logger",
                                      [t |-> "Logger", v |-> "summarizer"]),
                      !.logger = [handlers |-> m.logger.handlers \o <<ch, fh>>,
                                  level |-> "INFO"]])

\* a step of _init runs unless an exception is propagating
Step(m0, F(_)) == Bind(m0, LAMBDA m : IF m.err = "none" THEN F(m) ELSE m)

_init(m0, t, avail) ==
    Step(Step(Step(Step(InitUseCuda(InitLogPath(m0, t), avail),
                        InitSplits),
                   InitDestinations),
              InitMode),
         InitLogger)

load_from_args(m0, args, t, avail) ==
    Bind(m0, LAMBDA m :
        _init([m EXCEPT !.hps = SelectModel(MergeArgs(m.hps, args), args)],
                 t, avail))

\* ----------------------------------------------------------------- inputs
\* a dict literal: keys to values
Args1(k, v) == [x \in {k} |-> v]

Args2(k1, v1, k2, v2) == [x \in {k1, k2} |-> IF x = k1 THEN v1 ELSE v2]

\* the args of the self-check under __main__
MainArgs ==
    [root |-> PyStr(a_root_dir),
     datasets |-> PyStr(a_set123),
     splits |-> PyStr(a_split12),
     new_param_float |-> PyNum("1.23456")]

\* the argument mappings explored: no flag, one flag, test mode with its
\* weights path, and the self-check's mapping
ArgMaps ==
    {EmptyDict, MainArgs,
     Args2("test", PyBool(TRUE), "weights_path", PyStr(a_weights))}
    \cup {Args1("model", v) : v \in {PyNone, PyStr(s_baseline), PyStr(s_vasnet),
                                      PyStr(s_transformer), PyStr(s_DSN),
                                      PyStr(s_sumgan), PyStr(s_resnet)}}
    \cup {Args1("use_cuda", PyStr(v)) : v \in {s_default, s_yes, s_no}}
    \cup {Args1("test", PyBool(b)) : b \in BOOLEAN}
    \cup {Args1("weights_path", PyStr(a_weights))}
    \cup {Args1("splits_files", PyStr(v)) : v \in {a_two_tvsum, a_ovp, a_blank}}
    \cup {Args1("datasets", PyStr(a_swapped))}

\* dataset names looked up through get_dataset_by_name
DatasetNames == {q_tvsum, q_summe, q_sum, q_ovp}

\* records logged through hps.logger
LogLevels == {"DEBUG", "INFO"}

LevelNo(l) == CASE l = "DEBUG" -> 10 [] l = "INFO" -> 20 [] OTHER -> 30

\* ---------------------------------------------------------------- actions
Machine == [hps |-> hps, logger |-> logger, writers |-> writers,
            dirs |-> dirs, err |-> "none"]

\* what a call found when it started: the type and value of the attributes
\* it may replace, and the resources already held
Snapshot ==
    [types |-> [k \in DOMAIN hps |-> hps[k].t],
     model_class |-> hps.model_class,
     use_cuda |-> hps.use_cuda,
     writers |-> Len(writers),
     handlers |-> Len(logger.handlers),
     dirs |-> dirs]

Init ==
    /\ hps = DefaultHps
    /\ logger = [handlers |-> <<>>, level |-> "NOTSET"]
    /\ writers = <<>>
    /\ dirs = {}
    /\ now = 171
    /\ calls = 0
    /\ last = [op |-> "new"]

\* hps.load_from_args(args)
LoadFromArgs(args) ==
    /\ calls < MaxCalls
    /\ \E avail \in (IF PyEq(MergeArgs(hps, args).use_cuda, PyStr(s_default))
                     THEN BOOLEAN ELSE {FALSE}) :
         LET m == load_from_args(Machine, args, now, avail)
         IN  /\ hps' = m.hps
             /\ logger' = m.logger
             /\ writers' = m.writers
             /\ dirs' = m.dirs
             /\ last' = [op |-> "load", args |-> args, pre |-> Snapshot,
                         err |-> m.err, avail |-> avail, t |-> now]
    /\ calls' = calls + 1
    /\ UNCHANGED now

\* hps.get_dataset_by_name(dataset_name)
GetDatasetByName(dataset_name) ==
    /\ last' = [op |-> "get", dataset_name |-> dataset_name,
                ret |-> get_dataset_by_name(hps, dataset_name)]
    /\ UNCHANGED <<hps, logger, writers, dirs, now, calls>>

\* Logger.handle: a record at or above the logger's level goes to every
\* handler of the logger, in order.  With its level unset the logger takes
\* the root's, WARNING.
Emit(lg, level) ==
    IF LevelNo(level) >= LevelNo(lg.level)
    THEN [i \in 1..Len(lg.handlers) |-> lg.handlers[i]]
    ELSE <<>>

\* hps.logger.info(...) or .debug(...), after a resolution
Log(level) ==
    /\ HasAttr(hps, "logger")
    /\ last' = [op |-> "log", level |-> level, emits |-> Emit(logger, level)]
    /\ UNCHANGED <<hps, logger, writers, dirs, now, calls>>

\* a second passes
Tick ==
    /\ now < 171 + MaxTicks
    /\ now' = now + 1
    /\ UNCHANGED <<hps, logger, writers, dirs, calls, last>>

\* configuration resolution alone
Next ==
    \/ \E args \in ArgMaps : LoadFromArgs(args)
    \/ Tick

Spec == Init /\ [][Next]_vars

\* resolution and the use made of the resolved object
NextUse ==
    \/ \E args \in ArgMaps : LoadFromArgs(args)
    \/ \E n \in DatasetNames : GetDatasetByName(n)
    \/ \E l \in LogLevels : Log(l)
    \/ Tick

SpecUse == Init /\ [][NextUse]_vars

\* ------------------------------------------------------------ properties
\* the last step was a load_from_args call
Loaded == last.op = "load"

\* the keys of the last call's args whose value is not None
Given == {k \in DOMAIN last.args : last.args[k].t # "NoneType"}

\* the elements of a list, as a set
Elems(l) == {l[i] : i \in 1..Len(l)}

\* a string cut at every run of whitespace or commas
RECURSIVE SplitWsOrComma(_)
SplitWsOrComma(s) ==
    IF s = <<>> THEN <<>>
    ELSE IF IsSpace(Head(s)) \/ Head(s) = "," THEN SplitWsOrComma(Tail(s))
    ELSE LET stops == {i \in 1..Len(s) : IsSpace(s[i]) \/ s[i] = ","}
             n == IF stops = {} THEN Len(s) + 1
                  ELSE CHOOSE i \in stops : \A j \in stops : i <= j
         IN  <<SubSeq(s, 1, n - 1)>> \o SplitWsOrComma(SubSeq(s, n, Len(s)))

\* C1: after load_from_args(args) returns, every key k of args with a
\* non-null value holds the coerced value: the string split on whitespace or
\* commas when the field existed and held a sequence, else the raw value;
\* also for weights_path and use_cuda.
C1_MergedValuesKept ==
    (Loaded /\ last.err = "none") =>
        \A k \in Given :
            PyEq(hps[k],
                 IF k \in DOMAIN last.pre.types /\ last.pre.types[k] = "list"
                 THEN PyList(SplitWsOrComma(last.args[k].v))
                 ELSE last.args[k])

\* the constructor the claim names for a "model" value
NamedModel(val) ==
    IF val.t # "str" THEN LogisticRegressionModel
    ELSE CASE val.v = s_vasnet -> VASNetModel
           [] val.v = s_transformer -> TransformerModel
           [] val.v = s_DSN -> DSNModel
           [] val.v = s_sumgan -> SumGANModel
           [] OTHER -> LogisticRegressionModel

\* C2 as stated: after a load_from_args call model_class is fixed by that
\* call's arguments alone, the baseline constructor when "model" is missing.
C2_ModelFromLastCallAlone ==
    Loaded =>
        hps.model_class = IF "model" \in DOMAIN last.args
                          THEN NamedModel(last.args["model"])
                          ELSE LogisticRegressionModel

\* C2 amended: model_class is the constructor named by the call's "model"
\* value (baseline for any other value), and when the call has no "model"
\* key it is the model_class the configuration had before the call.
C2_ModelFromCallOrKept ==
    Loaded =>
        hps.model_class = IF "model" \in DOMAIN last.args
                          THEN NamedModel(last.args["model"])
                          ELSE last.pre.model_class

\* a call without "model" after a call that selected a non-baseline model
C2_Witness ==
    /\ Loaded
    /\ "model" \notin DOMAIN last.args
    /\ last.pre.model_class = VASNetModel
    /\ hps.model_class = VASNetModel

\* C3: a dataset name that no configured path contains ends resolution in
\* an explicit "dataset not found" outcome; resolution never goes on with
\* an absent value that a later operation fails on.  The lookup itself
\* yields the first path containing the name.
C3_NotFoundIsExplicit ==
    /\ (last.op = "get" /\ last.ret.t = "list") =>
           \E i \in 1..Len(hps.datasets.v) :
               /\ last.ret.v = <<hps.datasets.v[i]>>
               /\ Contains(last.dataset_name, hps.datasets.v[i])
               /\ \A j \in 1..(i - 1) :
                      ~Contains(last.dataset_name, hps.datasets.v[j])
    /\ Loaded =>
           LET unmatched ==
                   \E f \in Elems(hps.splits_files.v) :
                       \A d \in Elems(hps.datasets.v) :
                           ~Contains(ParseSplitsFilename(f).dataset_name, d)
           IN  /\ unmatched => last.err = "DatasetNotFound"
               /\ last.err # "AttributeError"

\* test mode was resolved with the weights path left at its None default
TestWithoutWeights ==
    /\ Loaded
    /\ Truthy(hps.test)
    /\ "weights_path" \notin Given
    /\ last.pre.types["weights_path"] = "NoneType"

\* C4: resolution with test=true and no weights path fails with "No weights
\* path given", no log directory created, no writer or log file opened.
C4_TestNeedsWeightsPath ==
    TestWithoutWeights =>
        /\ last.err = "AssertionError: No weights path given"
        /\ Len(writers) = last.pre.writers
        /\ dirs = last.pre.dirs
        /\ Len(logger.handlers) = last.pre.handlers

\* C5: a resolution that fails has acquired nothing: no metrics writer
\* opened, no log directory created, no log-file handler attached.
C5_FailureBeforeResources ==
    (Loaded /\ last.err # "none") =>
        /\ Len(writers) = last.pre.writers
        /\ dirs = last.pre.dirs
        /\ Len(logger.handlers) = last.pre.handlers

\* C6: resolution with test=true and a weights path W in the arguments
\* succeeds, and weights_of_file[s] is W/<basename(s)>.pth for every
\* configured splits file s.
C6_TestWeightsOfFile ==
    (Loaded /\ Truthy(hps.test) /\ "weights_path" \in Given) =>
        /\ last.err = "none"
        /\ hps.weights_of_file.t = "dict"
        /\ \A s \in Elems(hps.splits_files.v) :
               /\ s \in DOMAIN hps.weights_of_file.v
               /\ hps.weights_of_file.v[s] =
                      last.args["weights_path"].v \o <<"/">> \o Basename(s) \o s_pth

\* C7: two resolutions own independent resources: distinct log directories,
\* and a record logged through the logger of a resolution reaches that
\* resolution's two sinks only, once each.
C7_ResolutionsIndependent ==
    /\ \A i, j \in 1..Len(writers) : i # j => writers[i] # writers[j]
    /\ (last.op = "log" /\ last.level = "INFO") =>
           last.emits = <<[kind |-> "stream", target |-> <<>>],
                          [kind |-> "file",
                           target |-> hps.log_path.v \o <<"/">> \o s_train_log]>>

CudaInForce ==
    IF "use_cuda" \in Given THEN last.args["use_cuda"] ELSE last.pre.use_cuda

\* C9: after a resolution use_cuda is a boolean: the probed availability
\* for "default", true for "yes", false for anything else, a flag resolved
\* to true earlier included.
C9_UseCudaResolved ==
    Loaded =>
        /\ hps.use_cuda.t = "bool"
        /\ hps.use_cuda.v =
               IF CudaInForce.t = "str" /\ CudaInForce.v = s_default THEN last.avail
               ELSE IF CudaInForce.t = "str" /\ CudaInForce.v = s_yes THEN TRUE
               ELSE FALSE

\* a flag resolved to true is resolved again without a use_cuda argument
C9_Witness ==
    /\ Loaded
    /\ "use_cuda" \notin DOMAIN last.args
    /\ PyEq(last.pre.use_cuda, PyBool(TRUE))
    /\ PyEq(hps.use_cuda, PyBool(FALSE))

\* C10: after a resolution completed in train mode the five per-file maps
\* have exactly the configured splits files as keys, and every value of
\* dataset_of_file is one of the configured dataset paths.
C10_MapsCoverSplitsFiles ==
    (Loaded /\ last.err = "none" /\ ~Truthy(hps.test)) =>
        /\ \A a \in {"dataset_name_of_file", "dataset_of_file", "splits_of_file",
                     "weights_path", "pred_path"} :
               /\ hps[a].t = "dict"
               /\ DOMAIN hps[a].v = Elems(hps.splits_files.v)
        /\ \A s \in Elems(hps.splits_files.v) :
               hps.dataset_of_file.v[s] \in Elems(hps.datasets.v)

\* a train-mode resolution with a new splits list, after a completed one
C10_Witness ==
    /\ Loaded
    /\ last.err = "none"
    /\ ~Truthy(hps.test)
    /\ last.pre.handlers > 0
    /\ "splits_files" \in Given
    /\ hps.splits_files.v = <<x_ab_tvsum, x_c_tvsum>>
    /\ DOMAIN hps.dataset_of_file.v = {x_ab_tvsum, x_c_tvsum}
====
